---- MODULE Spec2Model ----
(***************************************************************************)
(* FritzBox Wake-on-LAN tool: one run of wakeup.main, from the parsed      *)
(* command line to the exit code, with the router as the environment.      *)
(*                                                                         *)
(* The run is sequential.  It is cut into steps at its blocking calls:     *)
(* every function that talks to the router is one step that issues the    *)
(* request and receives the reply (X_request) and one step that works on   *)
(* the reply (X_parse / X_scan / X_detect).  The reply of the router, a    *)
(* transport failure and a user interrupt are chosen by the environment.   *)
(*                                                                         *)
(* Text the code computes on (content type, nspver, version strings) is    *)
(* a sequence of one-character strings; text the code only copies or       *)
(* compares for equality is a TLA+ string.                                 *)
(***************************************************************************)
EXTENDS Integers, Sequences, FiniteSets, TLC

VARIABLES
    pc,            \* position of main
    args,          \* parsed command line: device, ssl_no_verify
    file,          \* the configuration file on disk: status, content
    config,        \* main's config dict (a function from keys to values)
    target_mac,    \* main's target_mac
    client,        \* the FritzBoxClient object
    password,      \* authenticate's local password
    challenge,     \* authenticate's local challenge
    sid,           \* main's sid
    uid,           \* main's uid
    payload,       \* send_wakeup's local payload
    fw_version,    \* send_wakeup's local fw_version
    requests,      \* every request handed to requests.get / requests.post, in order
    lastResponse,  \* the Response of the latest request, NoObj if it gave none
    lastTransport, \* what requests.get / requests.post did on the latest call
    exc,           \* the exception in flight, "none" when there is none
    raisedBy,      \* the function whose raise statement or callee raised exc
    exitCode,      \* main's return value, -1 while main runs
    stderr,        \* the category main printed to stderr
    prompts        \* number of getpass.getpass calls

vars == <<pc, args, file, config, target_mac, client, password, challenge, sid,
          uid, payload, fw_version, requests, lastResponse, lastTransport, exc,
          raisedBy, exitCode, stderr, prompts>>

(***************************************************************************)
(* Bounds and input alphabets                                              *)
(***************************************************************************)
MaxGroup == 2      \* longest passive / active device group the router reports

None == "None"                                   \* Python's None, for string-valued names
NoObj == [kind |-> "None"]                       \* Python's None, for object-valued names
NoDict == [k \in {} |-> None]                    \* a name not yet bound to a dict

SID_NOAUTH == "0000000000000000"

MACs == {"AA:BB:CC:DD:EE:FF", "11:22:33:44:55:66"}
UIDs == {"landevice1", "landevice2"}
SIDs == {SID_NOAUTH, "9c1e5a07b3d2f864", "51d0c6aa27e49f03"}
Challenges == {"1234567z", "89abcdef"}
DeviceNames == {"default", "mypc", "printer"}    \* the positional argument
TypedPasswords == {"typed"}                      \* what the user enters at the prompt

ConfigDevices == [default |-> "AA:BB:CC:DD:EE:FF", mypc |-> "11:22:33:44:55:66"]
FullConfig == [host |-> "192.168.1.1", port |-> 49443, username |-> "admin",
               devices |-> ConfigDevices, password |-> "secret"]
FilePasswords == {"secret", ""}                  \* a password entry of the file

(***************************************************************************)
(* Exceptions: the classes the run can raise and Python's class hierarchy  *)
(***************************************************************************)
BaseOf ==
    [ FileNotFoundError |-> "OSError",
      PermissionError   |-> "OSError",
      ConnectionError   |-> "OSError",
      RequestException  |-> "OSError",       \* requests.exceptions.RequestException(IOError)
      OSError           |-> "Exception",
      JSONDecodeError   |-> "ValueError",    \* json / requests JSONDecodeError
      InvalidVersion    |-> "ValueError",    \* packaging.version.InvalidVersion
      ValueError        |-> "Exception",
      IndexError        |-> "LookupError",
      KeyError          |-> "LookupError",
      LookupError       |-> "Exception",
      RuntimeError      |-> "Exception",
      XMLSyntaxError    |-> "Exception",     \* lxml.etree.XMLSyntaxError (a SyntaxError)
      EOFError          |-> "Exception",
      Exception         |-> "BaseException",
      KeyboardInterrupt |-> "BaseException",
      BaseException     |-> "object" ]

ExceptionClasses == DOMAIN BaseOf

RECURSIVE isinstance(_, _)
isinstance(e, cls) ==
    IF e = cls THEN TRUE
    ELSE IF e \notin DOMAIN BaseOf THEN FALSE
    ELSE isinstance(BaseOf[e], cls)

\* raise e inside function fn: the exception unwinds to main's try block
Raise(e, fn) ==
    /\ exc' = e
    /\ raisedBy' = fn
    /\ pc' = "except"

(***************************************************************************)
(* config.py                                                               *)
(***************************************************************************)
\* dict.get(key, default)
DictGet(d, key, default) == IF key \in DOMAIN d THEN d[key] ELSE default

\* d.setdefault(key, value): an entry already there is kept
DictSetDefault(d, key, value) ==
    [k \in DOMAIN d \cup {key} |-> IF k \in DOMAIN d THEN d[k] ELSE value]

\* d[key] = value
DictSet(d, key, value) ==
    [k \in DOMAIN d \cup {key} |-> IF k = key THEN value ELSE d[k]]

Ok(v) == [ok |-> TRUE, value |-> v, exc |-> "none"]
Err(e) == [ok |-> FALSE, value |-> None, exc |-> e]

required_fields == <<"host", "port", "username", "devices">>

\* the list comprehension of load_config: the required fields the dict lacks, in order
missing_fields(cfg) ==
    SelectSeq(required_fields, LAMBDA field : field \notin DOMAIN cfg)

load_config(f) ==
    IF f.status = "missing" THEN Err("FileNotFoundError")
    ELSE IF f.status = "unreadable" THEN Err("PermissionError")   \* path.open raises
    ELSE IF f.status = "badjson" THEN Err("ValueError")           \* JSONDecodeError, re-raised
    ELSE IF missing_fields(f.content) # <<>> THEN Err("ValueError")
    ELSE Ok(f.content)

\* C5 mutant: the membership test left out, the MAC fetched with dict.get
validate_device_lenient(cfg, device_name) ==
    Ok(DictGet(cfg["devices"], device_name, None))

validate_device(cfg, device_name) ==
    IF device_name \notin DOMAIN cfg["devices"] THEN Err("ValueError")
    ELSE Ok(cfg["devices"][device_name])

(***************************************************************************)
(* client.py: construction and transport                                   *)
(***************************************************************************)
Url(host, port, path, query) ==
    [scheme |-> "https", host |-> host, port |-> port, path |-> path, query |-> query]

FritzBoxClient(cfg) ==
    [ kind       |-> "FritzBoxClient",
      config     |-> cfg,
      host       |-> cfg["host"],
      port       |-> cfg["port"],
      username   |-> cfg["username"],
      verify_ssl |-> DictGet(cfg, "verify_ssl", TRUE),
      url_login  |-> Url(cfg["host"], cfg["port"], "/login_sid.lua", NoObj),
      url_data   |-> Url(cfg["host"], cfg["port"], "/data.lua", NoObj) ]

\* what requests.get / requests.post can do: return a Response, fail the TLS
\* handshake, fail otherwise (refused, timeout, ...), or be interrupted by Ctrl-C
Transport == {"response", "SSLError", "RequestException", "KeyboardInterrupt"}

\* the exception _make_request lets out for a transport failure
TransportError(t) == IF t = "SSLError" THEN "ConnectionError" ELSE t

\* lines 54 and 56: the call of requests.get / requests.post puts the request on the wire
requests_call(method, url, data, verify) ==
    /\ method \in {"get", "post"}
    /\ requests' = Append(requests,
           [method |-> method, url |-> url, data |-> data, verify |-> verify])

\* lines 52-61: what a call of _make_request can come to when the router may
\* answer with any of replies: a Response returned, or an exception let out
_make_request(replies) ==
    {[exc |-> "none", response |-> r, transport |-> "response"] : r \in replies}
    \cup {[exc |-> TransportError(t), response |-> NoObj, transport |-> t] :
             t \in Transport \ {"response"}}

(***************************************************************************)
(* Replies of the login endpoint: an XML document, well formed or not,     *)
(* with its elements in document order                                     *)
(***************************************************************************)
Elem(tag, text) == [tag |-> tag, text |-> text]

OptElem(tag, text) == IF text = None THEN <<>> ELSE <<Elem(tag, text)>>

LoginDocs ==
    {OptElem("SID", s) \o OptElem("Challenge", c) \o <<Elem("BlockTime", "0")>> :
        s \in SIDs \cup {None}, c \in Challenges \cup {None}}
    \cup {<<Elem("Challenge", c), Elem("Challenge", d)>> : c, d \in Challenges}
    \cup {<<Elem("SID", s), Elem("SID", t)>> : s, t \in SIDs}

LoginReplies ==
    {[kind |-> "xml", wellformed |-> FALSE, elems |-> <<>>]}
    \cup {[kind |-> "xml", wellformed |-> TRUE, elems |-> e] : e \in LoginDocs}

\* tree.xpath('//<tag>/text()'): the text nodes of the elements named tag, in order
xpath_text(doc, tag) ==
    LET hits == SelectSeq(doc.elems, LAMBDA e : e.tag = tag)
    IN  [i \in 1..Len(hits) |-> hits[i].text]

(***************************************************************************)
(* client.py: authentication                                               *)
(***************************************************************************)
encode(text, codec) == [codec |-> codec, text |-> text]
md5_hexdigest(bytes) == [md5 |-> bytes]

\* lines 85-87 with the password alone hashed
_calculate_response_no_challenge(ch, pw) ==
    LET hash_value == md5_hexdigest(encode(pw, "utf-16-le"))
    IN  [prefix |-> ch \o "-", hash_value |-> hash_value]

\* lines 85-87
_calculate_response(ch, pw) ==
    LET challenge_pwd == ch \o "-" \o pw
        hash_value == md5_hexdigest(encode(challenge_pwd, "utf-16-le"))
    IN  [prefix |-> ch \o "-", hash_value |-> hash_value]

\* authenticate's frame is left: its locals are gone
AuthLocalsDropped == password' = None /\ challenge' = None

\* the values a caller can pass as authenticate's password argument
ArgPasswords == {"explicit", ""}

\* lines 102-103 with the configured password consulted first
choose_password_config_first(arg, cfg) ==
    LET configured == DictGet(cfg, "password", None)
    IN  IF configured # None /\ configured # ""
        THEN [source |-> "config", value |-> configured]
        ELSE IF arg # None THEN [source |-> "argument", value |-> arg]
        ELSE [source |-> "prompt", value |-> None]

\* lines 102-103: if password is None: config.get('password') or getpass.getpass()
choose_password(arg, cfg) ==
    IF arg # None
    THEN [source |-> "argument", value |-> arg]
    ELSE LET configured == DictGet(cfg, "password", None)
         IN  IF configured # None /\ configured # ""
             THEN [source |-> "config", value |-> configured]
             ELSE [source |-> "prompt", value |-> None]

\* lines 102-103: password holds the argument on entry, None in main's call
authenticate_password ==
    /\ pc = "authenticate"
    /\ LET chosen == choose_password(password, client.config)
       IN  IF chosen.source # "prompt"
           THEN /\ password' = chosen.value
                /\ pc' = "_get_challenge"
                /\ UNCHANGED <<prompts, exc, raisedBy, challenge>>
           ELSE /\ prompts' = prompts + 1
                /\ \/ /\ \E typed \in TypedPasswords : password' = typed
                      /\ pc' = "_get_challenge"
                      /\ UNCHANGED <<exc, raisedBy, challenge>>
                   \/ /\ \E e \in {"KeyboardInterrupt", "EOFError"} :
                            Raise(e, "authenticate")
                      /\ AuthLocalsDropped
    /\ UNCHANGED <<lastTransport, args, file, config, target_mac, client, sid, uid, payload,
                   fw_version, requests, lastResponse, exitCode, stderr>>

\* line 70
_get_challenge_request ==
    /\ pc = "_get_challenge"
    /\ requests_call("get", client.url_login, NoObj, client.verify_ssl)
    /\ \E o \in _make_request(LoginReplies) :
          IF o.exc = "none"
          THEN /\ lastTransport' = o.transport
               /\ lastResponse' = o.response
               /\ pc' = "_get_challenge_parse"
               /\ UNCHANGED <<exc, raisedBy, password, challenge>>
          ELSE /\ Raise(o.exc, "_get_challenge")
               /\ AuthLocalsDropped
               /\ lastTransport' = o.transport
               /\ lastResponse' = NoObj
    /\ UNCHANGED <<args, file, config, target_mac, client, sid, uid, payload,
                   fw_version, exitCode, stderr, prompts>>

\* lines 71-72 and the assignment of line 105
_get_challenge_parse ==
    /\ pc = "_get_challenge_parse"
    /\ IF ~lastResponse.wellformed
       THEN Raise("XMLSyntaxError", "_get_challenge") /\ AuthLocalsDropped
       ELSE LET found == xpath_text(lastResponse, "Challenge")
            IN  IF found = <<>>
                THEN Raise("IndexError", "_get_challenge") /\ AuthLocalsDropped
                ELSE /\ challenge' = found[1]
                     /\ pc' = "authenticate_request"
                     /\ UNCHANGED <<exc, raisedBy, password>>
    /\ UNCHANGED <<lastTransport, args, file, config, target_mac, client, sid, uid, payload,
                   fw_version, requests, lastResponse, exitCode, stderr, prompts>>

\* lines 106-109
authenticate_request ==
    /\ pc = "authenticate_request"
    /\ LET response == _calculate_response(challenge, password)
           auth_url == [client.url_login EXCEPT
                          !.query = [username |-> client.username, response |-> response]]
       IN  requests_call("get", auth_url, NoObj, client.verify_ssl)
    /\ \E o \in _make_request(LoginReplies) :
          IF o.exc = "none"
          THEN /\ lastTransport' = o.transport
               /\ lastResponse' = o.response
               /\ pc' = "authenticate_parse"
               /\ UNCHANGED <<exc, raisedBy, password, challenge>>
          ELSE /\ Raise(o.exc, "authenticate")
               /\ AuthLocalsDropped
               /\ lastTransport' = o.transport
               /\ lastResponse' = NoObj
    /\ UNCHANGED <<args, file, config, target_mac, client, sid, uid, payload,
                   fw_version, exitCode, stderr, prompts>>

\* C1 mutant: the sentinel check left out
check_sid_accept_all(s) == Ok(s)

\* lines 114-119: the sentinel check on the extracted SID
check_sid(s) == IF s = SID_NOAUTH THEN Err("PermissionError") ELSE Ok(s)

\* lines 111-119 and the assignment of wakeup.py line 59
authenticate_parse ==
    /\ pc = "authenticate_parse"
    /\ AuthLocalsDropped
    /\ IF ~lastResponse.wellformed
       THEN Raise("XMLSyntaxError", "authenticate") /\ UNCHANGED sid
       ELSE LET found == xpath_text(lastResponse, "SID")
            IN  IF found = <<>>
                THEN Raise("IndexError", "authenticate") /\ UNCHANGED sid
                ELSE LET r == check_sid(found[1])
                     IN  IF r.ok
                         THEN /\ sid' = r.value
                              /\ pc' = "get_device_uid"
                              /\ UNCHANGED <<exc, raisedBy>>
                         ELSE Raise(r.exc, "authenticate") /\ UNCHANGED sid
    /\ UNCHANGED <<lastTransport, args, file, config, target_mac, client, uid, payload,
                   fw_version, requests, lastResponse, exitCode, stderr, prompts>>

(***************************************************************************)
(* Replies of the data endpoint: headers, the body text and what           *)
(* Response.json() makes of the body                                       *)
(***************************************************************************)
EmptyObject == [k \in {} |-> None]                 \* the JSON object {}
InvalidJson == [valid |-> FALSE, value |-> EmptyObject]
Json(v) == [valid |-> TRUE, value |-> v]

DataReply(headers, json, text) ==
    [kind |-> "data", headers |-> headers, json |-> json, text |-> text]

\* Response.json(): the parsed body, or JSONDecodeError
response_json(r) == IF r.json.valid THEN Ok(r.json.value) ELSE Err("JSONDecodeError")

\* obj[key]: the value, or KeyError
HasKey(obj, key) == key \in DOMAIN obj

(***************************************************************************)
(* client.py: device resolution                                            *)
(***************************************************************************)
Devices == [mac : MACs, UID : UIDs]
Groups == UNION {[1..n -> Devices] : n \in 0..MaxGroup}

ListingReplies ==
    {DataReply(EmptyObject, j, <<>>) :
        j \in {InvalidJson,
               Json(EmptyObject),
               Json([data |-> EmptyObject]),
               Json([data |-> [passive |-> <<>>]]),
               Json([data |-> [active |-> <<>>]])}
              \cup {Json([data |-> [passive |-> p, active |-> a]]) : p, a \in Groups}}

\* lines 145-147: the inner loop over one device list; None when it runs out
RECURSIVE scan_list(_, _)
scan_list(device_list, mac_address) ==
    IF device_list = <<>> THEN None
    ELSE IF Head(device_list).mac = mac_address THEN Head(device_list).UID
    ELSE scan_list(Tail(device_list), mac_address)

\* lines 144-147: the outer loop over the lists; None when no list has a match
RECURSIVE scan_lists(_, _)
scan_lists(lists, mac_address) ==
    IF lists = <<>> THEN None
    ELSE LET hit == scan_list(Head(lists), mac_address)
         IN  IF hit # None THEN hit ELSE scan_lists(Tail(lists), mac_address)

\* C6 mutant: the active group scanned first
device_lists_active_first(data) == <<data["data"]["active"], data["data"]["passive"]>>

\* C7 mutant: only the passive group scanned
device_lists_passive_only(data) == <<data["data"]["passive"]>>

\* line 144: the lists in scan order
device_lists(data) == <<data["data"]["passive"], data["data"]["active"]>>

\* C3 mutant: the raise after the loops left out, the function falls off its end
lookup_result_no_raise(hit) == Ok(hit)

\* lines 147-151: return the UID found, or raise when the loops ran out
lookup_result(hit) == IF hit = None THEN Err("LookupError") ELSE Ok(hit)

\* lines 142-151 on a received listing
get_device_uid_result(response, mac_address) ==
    LET data == response_json(response)
    IN  IF ~data.ok THEN Err(data.exc)
        ELSE IF ~HasKey(data.value, "data") THEN Err("KeyError")
        ELSE IF ~HasKey(data.value["data"], "passive") THEN Err("KeyError")
        ELSE IF ~HasKey(data.value["data"], "active") THEN Err("KeyError")
        ELSE lookup_result(scan_lists(device_lists(data.value), mac_address))

netdev_payload(s) == [sid |-> s, page |-> "netDev", xhrId |-> "all"]

\* lines 135-141
get_device_uid_request ==
    /\ pc = "get_device_uid"
    /\ requests_call("post", client.url_data, netdev_payload(sid), client.verify_ssl)
    /\ \E o \in _make_request(ListingReplies) :
          IF o.exc = "none"
          THEN /\ lastTransport' = o.transport
               /\ lastResponse' = o.response
               /\ pc' = "get_device_uid_scan"
               /\ UNCHANGED <<exc, raisedBy>>
          ELSE /\ Raise(o.exc, "get_device_uid")
               /\ lastTransport' = o.transport
               /\ lastResponse' = NoObj
    /\ UNCHANGED <<args, file, config, target_mac, client, password, challenge, sid,
                   uid, payload, fw_version, exitCode, stderr, prompts>>

\* lines 142-151 and the assignment of wakeup.py line 62
get_device_uid_scan ==
    /\ pc = "get_device_uid_scan"
    /\ LET r == get_device_uid_result(lastResponse, target_mac)
       IN  IF r.ok
           THEN /\ uid' = r.value
                /\ pc' = "send_wakeup"
                /\ UNCHANGED <<exc, raisedBy>>
           ELSE /\ Raise(r.exc, "get_device_uid")
                /\ UNCHANGED uid
    /\ UNCHANGED <<lastTransport, args, file, config, target_mac, client, password, challenge, sid,
                   payload, fw_version, requests, lastResponse, exitCode, stderr,
                   prompts>>

(***************************************************************************)
(* Text as sequences of characters                                         *)
(***************************************************************************)
Digits == {"0", "1", "2", "3", "4", "5", "6", "7", "8", "9"}
Whitespace == {" ", "\t"}

DigitValue(c) ==
    CASE c = "0" -> 0 [] c = "1" -> 1 [] c = "2" -> 2 [] c = "3" -> 3 [] c = "4" -> 4
      [] c = "5" -> 5 [] c = "6" -> 6 [] c = "7" -> 7 [] c = "8" -> 8 [] c = "9" -> 9

\* int(text) for a non-empty run of digits
RECURSIVE int(_)
int(text) ==
    IF Len(text) = 1 THEN DigitValue(text[1])
    ELSE 10 * int(SubSeq(text, 1, Len(text) - 1)) + DigitValue(text[Len(text)])

\* length of the longest prefix of text with no character of seps
RECURSIVE RunLength(_, _)
RunLength(text, seps) ==
    IF text = <<>> \/ Head(text) \in seps THEN 0
    ELSE 1 + RunLength(Tail(text), seps)

\* str.split(): the maximal runs of non-whitespace characters
RECURSIVE split(_)
split(text) ==
    IF text = <<>> THEN <<>>
    ELSE IF Head(text) \in Whitespace THEN split(Tail(text))
    ELSE LET n == RunLength(text, Whitespace)
         IN  <<SubSeq(text, 1, n)>> \o split(SubSeq(text, n + 1, Len(text)))

\* str.split('.'): the fields between the dots, empty fields kept
RECURSIVE split_dots(_)
split_dots(text) ==
    LET n == RunLength(text, {"."})
    IN  IF n = Len(text) THEN <<text>>
        ELSE <<SubSeq(text, 1, n)>> \o split_dots(SubSeq(text, n + 2, Len(text)))

\* str.startswith(prefix)
startswith(text, prefix) ==
    /\ Len(prefix) <= Len(text)
    /\ SubSeq(text, 1, Len(prefix)) = prefix

\* needle in text
contains(text, needle) ==
    \E i \in 1..(Len(text) - Len(needle) + 1) :
        SubSeq(text, i, i + Len(needle) - 1) = needle

(***************************************************************************)
(* packaging.version for dotted-numeric text: parse gives the release      *)
(* tuple, anything else is InvalidVersion; versions compare by the release *)
(* tuple with its trailing zeros dropped                                   *)
(***************************************************************************)
InvalidRelease == [valid |-> FALSE, release |-> <<>>]

version_parse(text) ==
    LET fields == split_dots(text)
    IN  IF \A i \in 1..Len(fields) :
               fields[i] # <<>> /\ \A k \in 1..Len(fields[i]) : fields[i][k] \in Digits
        THEN [valid |-> TRUE, release |-> [i \in 1..Len(fields) |-> int(fields[i])]]
        ELSE InvalidRelease

RECURSIVE strip_zeros(_)
strip_zeros(release) ==
    IF release # <<>> /\ release[Len(release)] = 0
    THEN strip_zeros(SubSeq(release, 1, Len(release) - 1))
    ELSE release

\* Python's a <= b on tuples of integers
RECURSIVE tuple_le(_, _)
tuple_le(a, b) ==
    IF a = <<>> THEN TRUE
    ELSE IF b = <<>> THEN FALSE
    ELSE IF Head(a) # Head(b) THEN Head(a) < Head(b)
    ELSE tuple_le(Tail(a), Tail(b))

\* version.parse(a) <= version.parse(b), both valid
version_le(a, b) == tuple_le(strip_zeros(a.release), strip_zeros(b.release))

(***************************************************************************)
(* client.py: firmware version                                             *)
(***************************************************************************)
NspverTexts ==
    {
      <<"7", ".", "2">>,                                             \* "7.2"
      <<"7", ".", "3">>,                                             \* "7.3"
      <<"7", ".", "2", "4">>,                                        \* "7.24"
      <<"0", ".", "0">>,                                             \* "0.0"
      <<"7", ".", "2", "5">>,                                        \* "7.25"
      <<"7", ".", "3", "0">>,                                        \* "7.30"
      <<"7", ".", "5", "0">>,                                        \* "7.50"
      <<"7", ".", "2", "4", ".", "0">>,                              \* "7.24.0"
      <<"7", ".", "2", "4", ".", "1">>,                              \* "7.24.1"
      <<"6", ".", "9", "9">>,                                        \* "6.99"
      <<"8">>,                                                       \* "8"
      <<"0", "7", ".", "2", "4">>,                                   \* "07.24"
      <<"7", ".", "5", "0", " ", "B", "E", "T", "A">>,               \* "7.50 BETA"
      <<" ", "7", ".", "2", "4">>,                                   \* " 7.24"
      <<"n", "/", "a">>,                                             \* "n/a"
      <<>>,                                                          \* ""
      <<" ">>                                                        \* " "
    }

FirmwareReplies ==
    {DataReply(EmptyObject, j, <<>>) :
        j \in {InvalidJson,
               Json(EmptyObject),
               Json([data |-> EmptyObject]),
               Json([data |-> [fritzos |-> EmptyObject]])}
              \cup {Json([data |-> [fritzos |-> [nspver |-> t]]]) : t \in NspverTexts}}

FallbackVersion == <<"0", ".", "0">>               \* '0.0'

\* line 173 as a bare 'except Exception'
firmware_except_any(e) == isinstance(e, "Exception")

\* line 173: the exceptions get_firmware_version turns into '0.0'
firmware_except(e) == isinstance(e, "KeyError") \/ isinstance(e, "IndexError")

\* lines 171-172 on a received overview
firmware_lookup(response) ==
    LET data == response_json(response)
    IN  IF ~data.ok THEN Err(data.exc)
        ELSE IF ~HasKey(data.value, "data") THEN Err("KeyError")
        ELSE IF ~HasKey(data.value["data"], "fritzos") THEN Err("KeyError")
        ELSE IF ~HasKey(data.value["data"]["fritzos"], "nspver") THEN Err("KeyError")
        ELSE LET tokens == split(data.value["data"]["fritzos"]["nspver"])
             IN  IF tokens = <<>> THEN Err("IndexError") ELSE Ok(tokens[1])

\* C2 mutant: the overview request built without the session's SID
overview_payload_no_session(s) == [sid |-> SID_NOAUTH, page |-> "overview"]

overview_payload(s) == [sid |-> s, page |-> "overview"]

wake_payload(s, u) ==
    [sid |-> s, dev |-> u, oldpage |-> "net/edit_device.lua", page |-> "edit_device",
     btn_wake |-> ""]

SendWakeupLocalsDropped == payload' = NoObj /\ fw_version' = <<>>

(***************************************************************************)
(* client.py: wake request                                                 *)
(***************************************************************************)
JsonType ==                                        \* 'application/json'
    <<"a", "p", "p", "l", "i", "c", "a", "t", "i", "o", "n", "/", "j", "s", "o", "n">>
PidNetDev ==                                       \* '"pid":"netDev"'
    <<"\"", "p", "i", "d", "\"", ":", "\"", "n", "e", "t", "D", "e", "v", "\"">>
LegacyLimit == <<"7", ".", "2", "4">>              \* '7.24'

WakeContentTypes ==
    {
      \* application/json
      <<"a", "p", "p", "l", "i", "c", "a", "t", "i", "o", "n", "/", "j", "s", "o", "n">>,
      \* application/json; charset=utf-8
      <<"a", "p", "p", "l", "i", "c", "a", "t", "i", "o", "n", "/", "j", "s", "o", "n", ";",
        " ", "c", "h", "a", "r", "s", "e", "t", "=", "u", "t", "f", "-", "8">>,
      \* text/html
      <<"t", "e", "x", "t", "/", "h", "t", "m", "l">>
    }

WakeHeaders ==
    {EmptyObject} \cup {[k \in {"content-type"} |-> t] : t \in WakeContentTypes}

WakeBodies ==
    {
      \* {"data":{"btn_wake":"ok"}}
      [json |-> Json([data |-> [btn_wake |-> "ok"]]),
       text |-> <<"{", "\"", "d", "a", "t", "a", "\"", ":", "{", "\"", "b", "t", "n", "_",
                 "w", "a", "k", "e", "\"", ":", "\"", "o", "k", "\"", "}", "}">>],
      \* {"data":{"btn_wake":"fail"}}
      [json |-> Json([data |-> [btn_wake |-> "fail"]]),
       text |-> <<"{", "\"", "d", "a", "t", "a", "\"", ":", "{", "\"", "b", "t", "n", "_",
                 "w", "a", "k", "e", "\"", ":", "\"", "f", "a", "i", "l", "\"", "}", "}">>],
      \* {"pid":"netDev","data":{"btn_wake":"fail"}}
      [json |-> Json([pid |-> "netDev", data |-> [btn_wake |-> "fail"]]),
       text |-> <<"{", "\"", "p", "i", "d", "\"", ":", "\"", "n", "e", "t", "D", "e", "v",
                 "\"", ",", "\"", "d", "a", "t", "a", "\"", ":", "{", "\"", "b", "t", "n",
                 "_", "w", "a", "k", "e", "\"", ":", "\"", "f", "a", "i", "l", "\"", "}", "}">>],
      \* {"pid":"netDev"}
      [json |-> Json([pid |-> "netDev"]),
       text |-> <<"{", "\"", "p", "i", "d", "\"", ":", "\"", "n", "e", "t", "D", "e", "v",
                 "\"", "}">>],
      \* {"data":{}}
      [json |-> Json([data |-> EmptyObject]),
       text |-> <<"{", "\"", "d", "a", "t", "a", "\"", ":", "{", "}", "}">>],
      \* <p>"pid":"netDev"</p>
      [json |-> InvalidJson,
       text |-> <<"<", "p", ">", "\"", "p", "i", "d", "\"", ":", "\"", "n", "e", "t", "D",
                 "e", "v", "\"", "<", "/", "p", ">">>],
      \* <p>"pid":"net"</p>
      [json |-> InvalidJson,
       text |-> <<"<", "p", ">", "\"", "p", "i", "d", "\"", ":", "\"", "n", "e", "t", "\"",
                 "<", "/", "p", ">">>],
      \* 
      [json |-> InvalidJson,
       text |-> <<>>]
    }

WakeReplies == {DataReply(h, b.json, b.text) : h \in WakeHeaders, b \in WakeBodies}

\* lines 163-174: what get_firmware_version returns or lets out, given what its
\* try block came to
get_firmware_version_return(r) ==
    IF r.ok THEN Ok(r.value)
    ELSE IF firmware_except(r.exc) THEN Ok(FallbackVersion)
    ELSE Err(r.exc)

\* lines 190-199 with 164-170: the payload is built, the overview is requested
send_wakeup_begin ==
    /\ pc = "send_wakeup"
    /\ requests_call("post", client.url_data, overview_payload(sid), client.verify_ssl)
    /\ \E o \in _make_request(FirmwareReplies) :
          IF o.exc = "none"
          THEN /\ lastTransport' = o.transport
               /\ lastResponse' = o.response
               /\ payload' = wake_payload(sid, uid)
               /\ pc' = "get_firmware_version_parse"
               /\ UNCHANGED <<exc, raisedBy, fw_version>>
          ELSE LET r == get_firmware_version_return(Err(o.exc))
               IN  /\ lastTransport' = o.transport
                   /\ lastResponse' = NoObj
                   /\ IF r.ok
                      THEN /\ fw_version' = r.value
                           /\ payload' = wake_payload(sid, uid)
                           /\ pc' = "send_wakeup_request"
                           /\ UNCHANGED <<exc, raisedBy>>
                      ELSE /\ Raise(r.exc, "get_firmware_version")
                           /\ SendWakeupLocalsDropped
    /\ UNCHANGED <<args, file, config, target_mac, client, password, challenge, sid,
                   uid, exitCode, stderr, prompts>>

\* lines 171-174 and the assignment of line 199
get_firmware_version_parse ==
    /\ pc = "get_firmware_version_parse"
    /\ LET r == get_firmware_version_return(firmware_lookup(lastResponse))
       IN  IF r.ok
           THEN /\ fw_version' = r.value
                /\ pc' = "send_wakeup_request"
                /\ UNCHANGED <<exc, raisedBy, payload>>
           ELSE /\ Raise(r.exc, "get_firmware_version")
                /\ SendWakeupLocalsDropped
    /\ UNCHANGED <<lastTransport, args, file, config, target_mac, client, password, challenge, sid,
                   uid, requests, lastResponse, exitCode, stderr, prompts>>

\* C8 mutant: < in place of <=
wake_page_strict(page, fw) ==
    IF version_le(version_parse(fw), version_parse(LegacyLimit))
       /\ ~version_le(version_parse(LegacyLimit), version_parse(fw))
    THEN page \o "2"
    ELSE page

\* lines 200-201: the page for firmware fw, a valid version string
wake_page(page, fw) ==
    IF version_le(version_parse(fw), version_parse(LegacyLimit))
    THEN page \o "2"
    ELSE page

\* lines 200-208
send_wakeup_request ==
    /\ pc = "send_wakeup_request"
    /\ LET fw == version_parse(fw_version)
       IN  IF ~fw.valid
           THEN /\ Raise("InvalidVersion", "send_wakeup")
                /\ SendWakeupLocalsDropped
                /\ UNCHANGED <<requests, lastResponse, lastTransport>>
           ELSE LET adjusted == [payload EXCEPT
                                    !.page = wake_page(payload.page, fw_version)]
                IN  /\ requests_call("post", client.url_data, adjusted,
                                     client.verify_ssl)
                    /\ \E o \in _make_request(WakeReplies) :
                          IF o.exc = "none"
                          THEN /\ lastTransport' = o.transport
                               /\ lastResponse' = o.response
                               /\ payload' = adjusted
                               /\ pc' = "send_wakeup_detect"
                               /\ UNCHANGED <<exc, raisedBy, fw_version>>
                          ELSE /\ Raise(o.exc, "send_wakeup")
                               /\ SendWakeupLocalsDropped
                               /\ lastTransport' = o.transport
                               /\ lastResponse' = NoObj
    /\ UNCHANGED <<args, file, config, target_mac, client, password, challenge, sid,
                   uid, exitCode, stderr, prompts>>

\* lines 210-215 with the answer not looked at
wake_success_unchecked(response) == Ok(TRUE)

\* lines 210-215: success as the reply shows it, or the exception of response.json()
wake_success(response) ==
    LET content_type == DictGet(response.headers, "content-type", <<>>)
    IN  IF startswith(content_type, JsonType)
        THEN LET data == response_json(response)
             IN  IF ~data.ok THEN Err(data.exc)
                 ELSE Ok(DictGet(DictGet(data.value, "data", EmptyObject),
                                 "btn_wake", None) = "ok")
        ELSE Ok(contains(response.text, PidNetDev))

\* lines 210-220 and wakeup.py line 65
send_wakeup_detect ==
    /\ pc = "send_wakeup_detect"
    /\ LET r == wake_success(lastResponse)
       IN  IF ~r.ok THEN Raise(r.exc, "send_wakeup")
           ELSE IF ~r.value THEN Raise("RuntimeError", "send_wakeup")
           ELSE /\ pc' = "return"
                /\ UNCHANGED <<exc, raisedBy>>
    /\ SendWakeupLocalsDropped
    /\ UNCHANGED <<lastTransport, args, file, config, target_mac, client, password, challenge, sid,
                   uid, requests, lastResponse, exitCode, stderr, prompts>>

(***************************************************************************)
(* wakeup.py: main                                                         *)
(***************************************************************************)
\* lines 52-53
main_load_config ==
    /\ pc = "load_config"
    /\ LET r == load_config(file)
       IN  IF r.ok
           THEN /\ config' = DictSet(r.value, "verify_ssl", ~args.ssl_no_verify)
                /\ pc' = "validate_device"
                /\ UNCHANGED <<exc, raisedBy>>
           ELSE /\ Raise(r.exc, "load_config")
                /\ UNCHANGED config
    /\ UNCHANGED <<lastTransport, args, file, target_mac, client, password, challenge, sid, uid,
                   payload, fw_version, requests, lastResponse, exitCode, stderr,
                   prompts>>

\* line 55
main_validate_device ==
    /\ pc = "validate_device"
    /\ LET r == validate_device(config, args.device)
       IN  IF r.ok
           THEN /\ target_mac' = r.value
                /\ pc' = "connect"
                /\ UNCHANGED <<exc, raisedBy>>
           ELSE /\ Raise(r.exc, "validate_device")
                /\ UNCHANGED target_mac
    /\ UNCHANGED <<lastTransport, args, file, config, client, password, challenge, sid, uid,
                   payload, fw_version, requests, lastResponse, exitCode, stderr,
                   prompts>>

\* lines 57-59: the client is built and authenticate() is entered
main_connect ==
    /\ pc = "connect"
    /\ client' = FritzBoxClient(config)
    /\ pc' = "authenticate"
    /\ UNCHANGED <<lastTransport, args, file, config, target_mac, password, challenge, sid, uid,
                   payload, fw_version, requests, lastResponse, exc, raisedBy,
                   exitCode, stderr, prompts>>

\* lines 67-68
main_return ==
    /\ pc = "return"
    /\ exitCode' = 0
    /\ pc' = "done"
    /\ UNCHANGED <<lastTransport, args, file, config, target_mac, client, password, challenge, sid,
                   uid, payload, fw_version, requests, lastResponse, exc, raisedBy,
                   stderr, prompts>>

\* C4 mutant: the RuntimeError clause without its return, main returns None (exit 0)
except_clauses_missing_return ==
    << [cls |-> "FileNotFoundError", prints |-> "Config Error",                code |-> 1],
       [cls |-> "ValueError",        prints |-> "Configuration Error",         code |-> 1],
       [cls |-> "PermissionError",   prints |-> "Authentication Error",        code |-> 1],
       [cls |-> "ConnectionError",   prints |-> "Connection Error",            code |-> 1],
       [cls |-> "LookupError",       prints |-> "Device Error",                code |-> 1],
       [cls |-> "RuntimeError",      prints |-> "Operation Error",             code |-> 0],
       [cls |-> "KeyboardInterrupt", prints |-> "Operation cancelled by user", code |-> 130],
       [cls |-> "Exception",         prints |-> "Unexpected error",            code |-> 1] >>

\* lines 70-100: the except clauses in the order they are tried
except_clauses ==
    << [cls |-> "FileNotFoundError", prints |-> "Config Error",                code |-> 1],
       [cls |-> "ValueError",        prints |-> "Configuration Error",         code |-> 1],
       [cls |-> "PermissionError",   prints |-> "Authentication Error",        code |-> 1],
       [cls |-> "ConnectionError",   prints |-> "Connection Error",            code |-> 1],
       [cls |-> "LookupError",       prints |-> "Device Error",                code |-> 1],
       [cls |-> "RuntimeError",      prints |-> "Operation Error",             code |-> 1],
       [cls |-> "KeyboardInterrupt", prints |-> "Operation cancelled by user", code |-> 130],
       [cls |-> "Exception",         prints |-> "Unexpected error",            code |-> 1] >>

\* the clause selection with the closing 'except Exception' clause left out
RECURSIVE matching_clause_no_catch_all(_, _)
matching_clause_no_catch_all(clauses, e) ==
    IF clauses = <<>> \/ Head(clauses).cls = "Exception"
    THEN [cls |-> "object", prints |-> "traceback", code |-> -1]
    ELSE IF isinstance(e, Head(clauses).cls) THEN Head(clauses)
    ELSE matching_clause_no_catch_all(Tail(clauses), e)

\* the first clause whose class the exception is an instance of; with none the
\* exception leaves main, which returns nothing
RECURSIVE matching_clause(_, _)
matching_clause(clauses, e) ==
    IF clauses = <<>> THEN [cls |-> "object", prints |-> "traceback", code |-> -1]
    ELSE IF isinstance(e, Head(clauses).cls) THEN Head(clauses)
    ELSE matching_clause(Tail(clauses), e)

\* lines 70-100
main_except ==
    /\ pc = "except"
    /\ LET clause == matching_clause(except_clauses, exc)
       IN  /\ stderr' = clause.prints
           /\ exitCode' = clause.code
           /\ pc' = IF clause.cls = "object" THEN "escaped" ELSE "done"
    /\ UNCHANGED <<lastTransport, args, file, config, target_mac, client, password, challenge, sid,
                   uid, payload, fw_version, requests, lastResponse, exc, raisedBy,
                   prompts>>

(***************************************************************************)
(* The run                                                                 *)
(***************************************************************************)
OptionalKeys == {"password"}
RequiredKeys == {required_fields[i] : i \in 1..Len(required_fields)}

\* the JSON objects the configuration file can hold
FileContents ==
    {[k \in K |-> IF k = "password" THEN pw ELSE FullConfig[k]] :
        K \in SUBSET (RequiredKeys \cup OptionalKeys), pw \in FilePasswords}
    \cup {[k \in RequiredKeys \cup {"password", "verify_ssl"} |->
              IF k = "password" THEN "secret"
              ELSE IF k = "verify_ssl" THEN FALSE ELSE FullConfig[k]]}

Files ==
    {[status |-> st, content |-> EmptyObject] : st \in {"missing", "unreadable", "badjson"}}
    \cup {[status |-> "ok", content |-> c] : c \in FileContents}

Init ==
    /\ pc = "load_config"
    /\ args \in [device : DeviceNames, ssl_no_verify : BOOLEAN]
    /\ file \in Files
    /\ config = NoDict
    /\ target_mac = None
    /\ client = NoObj
    /\ password = None
    /\ challenge = None
    /\ sid = None
    /\ uid = None
    /\ payload = NoObj
    /\ fw_version = <<>>
    /\ requests = <<>>
    /\ lastResponse = NoObj
    /\ lastTransport = "none"
    /\ exc = "none"
    /\ raisedBy = "none"
    /\ exitCode = -1
    /\ stderr = "none"
    /\ prompts = 0

Next ==
    \/ main_load_config
    \/ main_validate_device
    \/ main_connect
    \/ authenticate_password
    \/ _get_challenge_request
    \/ _get_challenge_parse
    \/ authenticate_request
    \/ authenticate_parse
    \/ get_device_uid_request
    \/ get_device_uid_scan
    \/ send_wakeup_begin
    \/ get_firmware_version_parse
    \/ send_wakeup_request
    \/ send_wakeup_detect
    \/ main_return
    \/ main_except

Spec == Init /\ [][Next]_vars

(***************************************************************************)
(* A caller of the client other than main: it loads the configuration as   *)
(* main does, then calls authenticate with or without a password, and      *)
(* again after a call has returned.                                        *)
(***************************************************************************)
MaxAuthCalls == 2

\* lines 21-35 and the call authenticate(password) of line 89
caller_connect ==
    /\ pc = "connect"
    /\ client' = FritzBoxClient(config)
    /\ \E arg \in ArgPasswords \cup {None} : password' = arg
    /\ pc' = "authenticate"
    /\ UNCHANGED <<lastTransport, args, file, config, target_mac, challenge, sid, uid,
                   payload, fw_version, requests, lastResponse, exc, raisedBy,
                   exitCode, stderr, prompts>>

\* line 89: authenticate is called again on the same client once it has returned
caller_authenticate ==
    /\ pc = "get_device_uid"
    /\ Len(requests) < 2 * MaxAuthCalls
    /\ \E arg \in ArgPasswords \cup {None} : password' = arg
    /\ pc' = "authenticate"
    /\ UNCHANGED <<lastTransport, args, file, config, target_mac, client, challenge, sid,
                   uid, payload, fw_version, requests, lastResponse, exc,
                   raisedBy, exitCode, stderr, prompts>>

NextClient ==
    \/ main_load_config
    \/ main_validate_device
    \/ caller_connect
    \/ caller_authenticate
    \/ authenticate_password
    \/ _get_challenge_request
    \/ _get_challenge_parse
    \/ authenticate_request
    \/ authenticate_parse
    \/ main_except

SpecClient == Init /\ [][NextClient]_vars

(***************************************************************************)
(* Vocabulary of the properties                                            *)
(***************************************************************************)
Min(S) == CHOOSE x \in S : \A y \in S : x <= y
Max(S) == CHOOSE x \in S : \A y \in S : y <= x

RequestKind(r) ==
    IF r.url.path = "/login_sid.lua"
    THEN IF r.method = "get" /\ r.url.query = NoObj THEN "challenge"
         ELSE IF r.method = "get" THEN "authentication"
         ELSE "other"
    ELSE IF r.url.path = "/data.lua" /\ r.method = "post"
    THEN IF r.data.page = "netDev" THEN "netDev"
         ELSE IF r.data.page = "overview" THEN "overview"
         ELSE IF r.data.page \in {"edit_device", "edit_device2"} THEN "wake"
         ELSE "other"
    ELSE "other"

RequestOrder == <<"challenge", "authentication", "netDev", "overview", "wake">>

DataRequests == {i \in DOMAIN requests : requests[i].url.path = "/data.lua"}
AuthRequests == {i \in DOMAIN requests : RequestKind(requests[i]) = "authentication"}

\* the latest request is the n-th of the run and the router answered it
Answered(n) == Len(requests) = n /\ lastResponse # NoObj

\* the answer to the authentication request is an XML document whose first SID
\* element carries the all-zero SID
SidElements == {i \in DOMAIN lastResponse.elems : lastResponse.elems[i].tag = "SID"}
SentinelReplied ==
    /\ Answered(2)
    /\ lastResponse.wellformed
    /\ SidElements # {}
    /\ lastResponse.elems[Min(SidElements)].text = SID_NOAUTH

(***************************************************************************)
(* C1: when the reply to the authentication request carries the all-zero   *)
(* SID, authenticate raises PermissionError and returns nothing; main's    *)
(* sid is never the all-zero SID.                                          *)
(***************************************************************************)
C1_SentinelRejected ==
    /\ sid # SID_NOAUTH
    /\ (SentinelReplied /\ pc # "authenticate_parse")
          => /\ exc = "PermissionError"
             /\ raisedBy = "authenticate"
             /\ sid = None
             /\ pc \in {"except", "done"}

C1_Witness ==
    /\ SentinelReplied
    /\ exc = "PermissionError"
    /\ pc = "done"
    /\ stderr = "Authentication Error"

(***************************************************************************)
(* C2: every request to the data endpoint carries in its sid field the     *)
(* SID that the one authenticate call of the run returned; that SID is     *)
(* not the all-zero SID and the run authenticates at most once.            *)
(***************************************************************************)
C2_DataRequestsCarrySid ==
    /\ Cardinality(AuthRequests) <= 1
    /\ \A i \in DataRequests :
          /\ requests[i].data.sid = sid
          /\ sid \in SIDs \ {SID_NOAUTH}
          /\ \E j \in AuthRequests : j < i

C2_Witness ==
    /\ pc = "done"
    /\ exitCode = 0
    /\ Cardinality(DataRequests) = 3
    /\ \A i \in DataRequests : requests[i].data.sid = "51d0c6aa27e49f03"

(***************************************************************************)
(* C3: the requests of a run are, in this order and each at most once,     *)
(* the challenge GET, the authentication GET, the netDev POST, the         *)
(* overview POST and the wake POST; a request is on the wire only when     *)
(* the steps before it have produced their results (a challenge, a valid   *)
(* SID, a UID) and no exception is in flight when one is about to be sent. *)
(***************************************************************************)
C3_RequestOrder ==
    /\ Len(requests) <= Len(RequestOrder)
    /\ \A i \in DOMAIN requests : RequestKind(requests[i]) = RequestOrder[i]
    /\ Len(requests) >= 2 =>
          requests[2].url.query.response.prefix \in {c \o "-" : c \in Challenges}
    /\ Len(requests) >= 3 => sid \in SIDs \ {SID_NOAUTH}
    /\ Len(requests) >= 4 => uid \in UIDs
    /\ Len(requests) >= 5 => requests[5].data.dev = uid
    /\ pc \in {"_get_challenge", "authenticate_request", "get_device_uid",
               "send_wakeup", "send_wakeup_request"} => exc = "none"

C3_Witness ==
    /\ pc = "done"
    /\ exitCode = 0
    /\ Len(requests) = 5
    /\ requests[5].data.page = "edit_device"

(***************************************************************************)
(* C4: from the moment an exception is in flight no request is sent any    *)
(* more, and the only step left is the one that ends main with exit code   *)
(* 1 or 130.                                                               *)
(***************************************************************************)
C4_FailureAborts ==
    [][exc # "none" =>
          /\ requests' = requests
          /\ exc' = exc
          /\ pc' = "done"
          /\ exitCode' \in {1, 130}]_vars

C4_Witness ==
    /\ exc = "LookupError"
    /\ Len(requests) = 3
    /\ pc = "done"
    /\ exitCode = 1

(***************************************************************************)
(* C5: when the configuration cannot be loaded (file missing, unreadable   *)
(* or not JSON, a required key missing) or the device name is not a key    *)
(* of its devices, no request is ever sent and main ends with exit code 1. *)
(***************************************************************************)
ConfigLoadFails ==
    \/ file.status # "ok"
    \/ ~(RequiredKeys \subseteq DOMAIN file.content)

DeviceUnknown ==
    /\ ~ConfigLoadFails
    /\ args.device \notin DOMAIN file.content["devices"]

C5_ConfigFailureBeforeNetwork ==
    (ConfigLoadFails \/ DeviceUnknown) =>
        /\ requests = <<>>
        /\ exitCode \in {-1, 1}
        /\ pc \in {"load_config", "validate_device", "except", "done"}
        /\ pc = "done" => exitCode = 1

C5_Witness ==
    /\ DeviceUnknown
    /\ args.device = "printer"
    /\ pc = "done"
    /\ exitCode = 1
    /\ stderr = "Configuration Error"
    /\ requests = <<>>

(***************************************************************************)
(* Vocabulary of the properties: the device listing                        *)
(***************************************************************************)
\* the answer to the netDev request has been worked on by get_device_uid
ListingHandled == Answered(3) /\ pc # "get_device_uid_scan"

\* that answer is JSON with both device groups
ListingHasGroups ==
    /\ lastResponse.json.valid
    /\ "data" \in DOMAIN lastResponse.json.value
    /\ {"passive", "active"} \subseteq DOMAIN lastResponse.json.value["data"]

Passive == lastResponse.json.value["data"]["passive"]
Active == lastResponse.json.value["data"]["active"]
ScanOrder == Passive \o Active
Matches == {i \in DOMAIN ScanOrder : ScanOrder[i].mac = target_mac}

(***************************************************************************)
(* C6: when some entry of the listing has the requested MAC, the lookup    *)
(* returns the UID of the first such entry of the passive group followed   *)
(* by the active group: passive before active, earlier before later, and   *)
(* a MAC found only in the active group resolves.                          *)
(***************************************************************************)
C6_FirstMatchPassiveThenActive ==
    (ListingHandled /\ ListingHasGroups /\ Matches # {}) =>
        /\ exc = "none"
        /\ pc = "send_wakeup"
        /\ uid = ScanOrder[Min(Matches)].UID

C6_Witness ==
    /\ ListingHandled
    /\ ListingHasGroups
    /\ Len(Passive) = 2
    /\ Passive[1].mac # target_mac
    /\ Passive[2].mac = target_mac
    /\ \E i \in DOMAIN Active : Active[i].mac = target_mac /\ Active[i].UID # Passive[2].UID
    /\ uid = Passive[2].UID

(***************************************************************************)
(* C7: the lookup raises LookupError exactly when no entry of the passive  *)
(* and of the active group has the requested MAC, empty groups included;   *)
(* then no UID is bound and the run sends no wake request.                 *)
(***************************************************************************)
C7_NotFoundIffNoMatch ==
    /\ (ListingHandled /\ ListingHasGroups) => (exc = "LookupError" <=> Matches = {})
    /\ exc = "LookupError" =>
          /\ raisedBy = "get_device_uid"
          /\ ListingHandled
          /\ ListingHasGroups
          /\ Matches = {}
          /\ uid = None
          /\ \A i \in DOMAIN requests : RequestKind(requests[i]) # "wake"

C7_Witness ==
    /\ ListingHandled
    /\ ListingHasGroups
    /\ Len(Passive) = 1
    /\ Len(Active) = 1
    /\ Matches = {}
    /\ exc = "LookupError"
    /\ pc = "done"
    /\ stderr = "Device Error"

(***************************************************************************)
(* Vocabulary of the properties: firmware versions as dotted numbers       *)
(***************************************************************************)
\* the i-th number of a dotted version, 0 past its end
Segment(release, i) == IF i <= Len(release) THEN release[i] ELSE 0

\* a <= b, number by number from the left
DottedLE(a, b) ==
    LET differ == {i \in 1..Max({Len(a), Len(b)}) : Segment(a, i) # Segment(b, i)}
    IN  differ = {} \/ Segment(a, Min(differ)) < Segment(b, Min(differ))

LegacyVersions ==
    {<<"7", ".", "2">>, <<"7", ".", "3">>, <<"7", ".", "2", "4">>, <<"0", ".", "0">>}
CurrentVersions ==
    {<<"7", ".", "2", "5">>, <<"7", ".", "3", "0">>, <<"7", ".", "5", "0">>}

(***************************************************************************)
(* C8: the wake POST has page "edit_device2" exactly when the firmware     *)
(* version is at most 7.24 as a dotted number, and "edit_device"           *)
(* otherwise (7.2, 7.3, 7.24, 0.0 against 7.25, 7.30, 7.50); its other     *)
(* fields are sid, dev, oldpage and btn_wake as built, whatever the page.  *)
(***************************************************************************)
C8_PageByFirmware ==
    pc = "send_wakeup_detect" =>
        LET sent == requests[5].data
            fw == version_parse(fw_version)
        IN  /\ fw.valid
            /\ sent.page = IF DottedLE(fw.release, <<7, 24>>)
                           THEN "edit_device2" ELSE "edit_device"
            /\ fw_version \in LegacyVersions => sent.page = "edit_device2"
            /\ fw_version \in CurrentVersions => sent.page = "edit_device"
            /\ DOMAIN sent = {"sid", "dev", "oldpage", "page", "btn_wake"}
            /\ sent.sid = sid
            /\ sent.dev = uid
            /\ sent.oldpage = "net/edit_device.lua"
            /\ sent.btn_wake = ""

C8_Witness ==
    /\ pc = "send_wakeup_detect"
    /\ fw_version = <<"7", ".", "3">>
    /\ requests[5].data.page = "edit_device2"

(***************************************************************************)
(* Vocabulary of the properties: the overview and the wake answer          *)
(***************************************************************************)
\* the answer to the overview request has been worked on by get_firmware_version
FirmwareHandled == Answered(4) /\ pc # "get_firmware_version_parse"

\* that answer is not JSON, lacks data / fritzos / nspver, or its nspver is blank
FirmwareMalformed ==
    \/ ~lastResponse.json.valid
    \/ "data" \notin DOMAIN lastResponse.json.value
    \/ "fritzos" \notin DOMAIN lastResponse.json.value["data"]
    \/ "nspver" \notin DOMAIN lastResponse.json.value["data"]["fritzos"]
    \/ LET nspver == lastResponse.json.value["data"]["fritzos"]["nspver"]
       IN  \A i \in DOMAIN nspver : nspver[i] \in Whitespace

(***************************************************************************)
(* C9: whenever the overview answer is missing or malformed (not JSON, a   *)
(* key of data / fritzos / nspver absent, nspver without a token), the     *)
(* firmware version is "0.0", nothing is raised, and the wake POST is      *)
(* then sent with page "edit_device2".                                     *)
(***************************************************************************)
C9_MalformedFirmwareFallsBack ==
    /\ (FirmwareHandled /\ FirmwareMalformed) =>
          /\ exc = "none"
          /\ pc = "send_wakeup_request"
          /\ fw_version = FallbackVersion
    /\ (pc = "send_wakeup_detect" /\ fw_version = FallbackVersion) =>
          requests[5].data.page = "edit_device2"

\* the answer to the wake request has been worked on by send_wakeup
WakeHandled == Answered(5) /\ pc # "send_wakeup_detect"

JsonTyped ==
    /\ "content-type" \in DOMAIN lastResponse.headers
    /\ startswith(lastResponse.headers["content-type"], JsonType)

BtnWakeOk ==
    /\ lastResponse.json.valid
    /\ "data" \in DOMAIN lastResponse.json.value
    /\ "btn_wake" \in DOMAIN lastResponse.json.value["data"]
    /\ lastResponse.json.value["data"]["btn_wake"] = "ok"

BodyHasPid == contains(lastResponse.text, PidNetDev)

(***************************************************************************)
(* C10: send_wakeup has two outcomes only.  With a JSON content type it    *)
(* returns True iff data.btn_wake is "ok", with any other content type     *)
(* iff the body contains "pid":"netDev"; in every other case it raises     *)
(* RuntimeError.                                                           *)
(***************************************************************************)
C10_TwoOutcomes ==
    WakeHandled =>
        IF (IF JsonTyped THEN BtnWakeOk ELSE BodyHasPid)
        THEN exc = "none" /\ pc \in {"return", "done"}
        ELSE exc = "RuntimeError" /\ raisedBy = "send_wakeup"

\* the answer to the challenge request is well-formed XML without a Challenge
\* element, and _get_challenge has handled it
ChallengeElements ==
    {i \in DOMAIN lastResponse.elems : lastResponse.elems[i].tag = "Challenge"}
ChallengeAbsent ==
    /\ Answered(1) /\ pc # "_get_challenge_parse"
    /\ lastResponse.wellformed
    /\ ChallengeElements = {}

\* the answer to the authentication request is well-formed XML without an SID
\* element, and authenticate has handled it
SidAbsent ==
    /\ Answered(2) /\ pc # "authenticate_parse"
    /\ lastResponse.wellformed
    /\ SidElements = {}

\* the listing is JSON without data, data.passive or data.active, and
\* get_device_uid has handled it
GroupsAbsent ==
    /\ ListingHandled
    /\ lastResponse.json.valid
    /\ ~ListingHasGroups

\* the classes main reports as authentication failure, device-not-found,
\* connection failure and wake failure
OtherFailureKinds == {"PermissionError", "LookupError", "ConnectionError", "RuntimeError"}

(***************************************************************************)
(* C11: when the challenge reply has no Challenge element, the             *)
(* authentication reply no SID element, or the listing no data.passive or  *)
(* data.active key, the operation raises an exception that is of none of   *)
(* the kinds authentication failure, device-not-found, connection failure  *)
(* and wake failure.                                                       *)
(***************************************************************************)
C11_AbsentFieldIsProtocolError ==
    (ChallengeAbsent \/ SidAbsent \/ GroupsAbsent) =>
        /\ exc # "none"
        /\ \A kind \in OtherFailureKinds : ~isinstance(exc, kind)

\* the run has failed and main has returned
RunFailed == pc = "done" /\ exc # "none"

\* the wake answer does not show success
WakeDetectionFailed ==
    WakeHandled /\ ~(IF JsonTyped THEN BtnWakeOk ELSE BodyHasPid)

(***************************************************************************)
(* C12: a failed run ends with a non-zero exit code and a printed          *)
(* category, and the category tells the cause: a configuration error only  *)
(* if load_config or validate_device raised, a device error only if the    *)
(* listing had both groups and none held the MAC, an authentication error  *)
(* only if the all-zero SID was replied, a connection error only if TLS    *)
(* verification failed, an operation error only if the wake answer did not *)
(* show success.                                                           *)
(***************************************************************************)
C12_CategoryTellsCause ==
    RunFailed =>
        /\ exitCode \notin {0, -1}
        /\ stderr # "none"
        /\ stderr \in {"Config Error", "Configuration Error"} =>
              raisedBy \in {"load_config", "validate_device"}
        /\ stderr = "Device Error" =>
              ListingHandled /\ ListingHasGroups /\ Matches = {}
        /\ stderr = "Authentication Error" => SentinelReplied
        /\ stderr = "Connection Error" => lastTransport = "SSLError"
        /\ stderr = "Operation Error" => WakeDetectionFailed

\* config loading, device validation, authentication, device resolution and
\* the wake request have succeeded one after the other and the wake answer
\* shows success
RunSucceeded ==
    /\ ~ConfigLoadFails /\ ~DeviceUnknown
    /\ target_mac = file.content["devices"][args.device]
    /\ [i \in DOMAIN requests |-> RequestKind(requests[i])] = RequestOrder
    /\ sid \in SIDs \ {SID_NOAUTH}
    /\ uid \in UIDs
    /\ WakeHandled
    /\ IF JsonTyped THEN BtnWakeOk ELSE BodyHasPid

\* Ctrl-C arrived while the run waited for the password or for the router
Interrupted == exc = "KeyboardInterrupt"

(***************************************************************************)
(* C13: when main has returned, its value is 0 iff every step of the run   *)
(* succeeded in order up to and including the wake success detection, 130  *)
(* iff the run was interrupted, and 1 in every other case; main returns    *)
(* nothing before that.                                                    *)
(***************************************************************************)
C13_ExitCodes ==
    /\ pc # "done" => exitCode = -1
    /\ pc = "done" =>
          /\ exitCode = 0 <=> RunSucceeded
          /\ exitCode = 130 <=> Interrupted
          /\ exitCode \notin {0, 130} => exitCode = 1

\* a run whose wake answer showed success by its body has returned 0
C13_Witness ==
    /\ pc = "done"
    /\ exitCode = 0
    /\ RunSucceeded
    /\ ~JsonTyped

\* the latest request of the run failed TLS verification
TlsFailed == lastTransport = "SSLError"

(***************************************************************************)
(* C14: with verification enabled, a TLS verification failure on any       *)
(* request of the run, the firmware overview included, is raised as        *)
(* ConnectionError, no further request is sent, and main prints the        *)
(* connection error and returns 1.                                         *)
(***************************************************************************)
C14_TlsFailureSurfaces ==
    (TlsFailed /\ client.verify_ssl) =>
        /\ exc = "ConnectionError"
        /\ pc \in {"except", "done"}
        /\ pc = "done" => exitCode = 1 /\ stderr = "Connection Error"

\* the firmware overview request failed TLS verification and main returned 1
C14_Witness ==
    /\ TlsFailed /\ client.verify_ssl
    /\ Len(requests) = 4
    /\ RequestKind(requests[4]) = "overview"
    /\ pc = "done" /\ exitCode = 1

\* authenticate is running
InAuthenticate ==
    pc \in {"authenticate", "_get_challenge", "_get_challenge_parse",
            "authenticate_request", "authenticate_parse"}

\* the response parameter of the latest request
SentResponse == requests[Len(requests)].url.query.response

(***************************************************************************)
(* C16: in every call of authenticate, the first as well as a later one on *)
(* the same client, one challenge request is followed by at most one       *)
(* authentication request; the challenge used is the first Challenge text  *)
(* of the answer just received, and the response sent is that challenge,   *)
(* a hyphen and the MD5 of the UTF-16LE encoding of challenge-password.    *)
(* Outside authenticate no challenge is held: the local is gone and the    *)
(* client object is as it was constructed.                                 *)
(***************************************************************************)
C16_ChallengePerCall ==
    /\ \A i \in DOMAIN requests :
          RequestKind(requests[i]) =
              IF i % 2 = 1 THEN "challenge" ELSE "authentication"
    /\ pc = "authenticate_request" =>
          /\ Len(requests) % 2 = 1
          /\ Answered(Len(requests))
          /\ challenge = lastResponse.elems[Min(ChallengeElements)].text
    /\ pc = "authenticate_parse" =>
          /\ Len(requests) % 2 = 0
          /\ SentResponse.prefix = challenge \o "-"
          /\ SentResponse.hash_value =
                md5_hexdigest(encode(challenge \o "-" \o password, "utf-16-le"))
    /\ ~InAuthenticate => challenge = None
    /\ client # NoObj => client = FritzBoxClient(config)

\* a second call on the same client has returned, having answered a challenge
\* other than the first call's
C16_Witness ==
    /\ pc = "get_device_uid"
    /\ Len(requests) = 4
    /\ requests[2].url.query.response.prefix # requests[4].url.query.response.prefix

\* the config of the client supplies a password entry
ConfigSuppliesPassword == "password" \in DOMAIN client.config

\* the config of the client supplies a password that is not empty
ConfigSuppliesNonEmptyPassword ==
    ConfigSuppliesPassword /\ client.config["password"] # ""

\* the prompt is called only by the entry step of authenticate, once, and
\* before that call's requests
PromptOnlyAtEntry ==
    prompts' # prompts =>
        /\ pc = "authenticate"
        /\ prompts' = prompts + 1
        /\ requests' = requests

VerifyWanted == ~args.ssl_no_verify

(***************************************************************************)
(* C18: from the moment the config is loaded its verify_ssl entry is the   *)
(* negation of the --ssl-no-verify flag, whatever the file said; the       *)
(* client takes that value at construction and every request of the run,   *)
(* on success and failure paths alike, is sent with it.                    *)
(***************************************************************************)
C18_VerifyFixedByFlag ==
    /\ config # NoDict => DictGet(config, "verify_ssl", TRUE) = VerifyWanted
    /\ client # NoObj =>
          /\ client.verify_ssl = VerifyWanted
          /\ client.verify_ssl = DictGet(client.config, "verify_ssl", TRUE)
    /\ \A i \in DOMAIN requests : requests[i].verify = VerifyWanted

\* the file asks for no verification, the flag is not given, and the five
\* requests of the run were sent verified
C18_Witness ==
    /\ pc = "done"
    /\ Len(requests) = 5
    /\ "verify_ssl" \in DOMAIN file.content
    /\ ~file.content["verify_ssl"]
    /\ ~args.ssl_no_verify
    /\ \A i \in DOMAIN requests : requests[i].verify

\* the exception in flight is matched by none of the clauses main names before
\* its closing 'except Exception'
UnnamedException ==
    /\ exc # "none"
    /\ \A i \in 1..(Len(except_clauses) - 1) : ~isinstance(exc, except_clauses[i].cls)

(***************************************************************************)
(* C19: no exception leaves main: whatever is raised by config loading,    *)
(* the client operations or the parsing of an answer is caught by one of   *)
(* main's clauses.  As long as main has not returned it has a next step    *)
(* (every request is answered or raises), and when it has returned its     *)
(* value is 0, 1 or 130.                                                   *)
(***************************************************************************)
C19_MainAlwaysReturns ==
    /\ pc # "escaped"
    /\ pc # "done" => ENABLED Next
    /\ pc = "done" => exitCode \in {0, 1, 130}

\* an exception of a class no clause names (an XML syntax error, an end of
\* input at the prompt, a transport error) was caught and main returned 1
C19_Witness ==
    /\ pc = "done"
    /\ UnnamedException
    /\ exc = "XMLSyntaxError"
    /\ stderr = "Unexpected error"
    /\ exitCode = 1

====
